---- MODULE Spec2Model ----
(***************************************************************************)
(* Category / class-ID reconciliation of normalize-carpart-annotations.    *)
(*                                                                         *)
(*   normalize_annotations.py       COCO-style reconciler: one annotation  *)
(*                                  document, one canonical category list  *)
(*   normalize_annotations_yolo.py  YOLO-style reconciler: one dataset     *)
(*                                  (manifest data.yaml + label files),    *)
(*                                  one canonical names mapping            *)
(*                                                                         *)
(*   batch_download_and_copy_labels.py  the download pool of one dataset   *)
(*   split_train_val.py             the move of the validation images and  *)
(*                                  their labels                           *)
(*   unzip_all.py                   the extraction of the zip files under  *)
(*                                  the root directory, run after run      *)
(*                                                                         *)
(* Text is modelled as sequences of one-character strings, so that strip,  *)
(* split, int, str and join do what the Python built-ins do.  JSON / YAML  *)
(* objects are records whose DOMAIN is the set of keys they have.          *)
(***************************************************************************)
EXTENDS Integers, Sequences, FiniteSets, TLC

VARIABLES
    script,          \* which script the operator runs: "coco", "yolo", ...
    categoriesFile,  \* content of categories.json (list of {id, name})
    annDoc,          \* content of the annotations.json on disk
    referenceYaml,   \* content of the reference data.yaml
    dataYaml,        \* content of the dataset's data.yaml on disk
    txtFiles,        \* path -> content, the .txt files under the dataset dir
    log,             \* history: one record per finished run of the script
    tree,            \* the files under the root directory that main() walks
    proc,            \* one run of main(): position, queue, results, history
    workers,         \* download pool: the state of each download_single_image call
    outdir,          \* download pool: the files of the output image directory
    counter          \* download pool: the ProgressCounter and its lock

\* the state of the download pool, and the state of the reconcilers
pool == <<workers, outdir, counter>>

reconcilers ==
    <<script, categoriesFile, annDoc, referenceYaml, dataYaml, txtFiles, log, tree, proc>>

\* the files and the history of the two reconcilers
documents == <<categoriesFile, annDoc, referenceYaml, dataYaml, txtFiles, log>>

vars ==
    <<script, categoriesFile, annDoc, referenceYaml, dataYaml, txtFiles, log, tree, proc,
      pool>>

---------------------------------------------------------------------------
(* Bounds of the model *)

MaxCats == 2     \* categories declared by an annotation document
MaxAnns == 1     \* annotations in an annotation document
MaxLines == 1    \* lines of the label file whose content varies
MaxRuns == 2     \* successive runs of the script over the same files
MaxDatasets == 2 \* dataset directories under the root directory
MaxItems == 2    \* items of one dataset's images.json
MaxNames == 2    \* lines of val.txt
MaxZips == 2     \* zip files under the root directory

---------------------------------------------------------------------------
(* Python text built-ins *)

NL == "\n"
SP == " "

IsSpace(c) == c = SP \/ c = NL

Digits == <<"0", "1", "2", "3", "4", "5", "6", "7", "8", "9">>

IsDigit(c) == \E d \in 1..10 : Digits[d] = c

DigitVal(c) == (CHOOSE d \in 1..10 : Digits[d] = c) - 1

RECURSIVE LStrip(_)
LStrip(s) == IF s # <<>> /\ IsSpace(Head(s)) THEN LStrip(Tail(s)) ELSE s

RECURSIVE RStrip(_)
RStrip(s) ==
    IF s # <<>> /\ IsSpace(s[Len(s)]) THEN RStrip(SubSeq(s, 1, Len(s) - 1)) ELSE s

\* str.strip()
Strip(s) == RStrip(LStrip(s))

\* str.split(): the maximal runs of non-whitespace characters, in order
RECURSIVE SplitFrom(_, _, _)
SplitFrom(s, cur, acc) ==
    IF s = <<>>
    THEN IF cur = <<>> THEN acc ELSE Append(acc, cur)
    ELSE IF IsSpace(Head(s))
         THEN SplitFrom(Tail(s), <<>>, IF cur = <<>> THEN acc ELSE Append(acc, cur))
         ELSE SplitFrom(Tail(s), Append(cur, Head(s)), acc)

Split(s) == SplitFrom(s, <<>>, <<>>)

\* int(token) succeeds on a non-empty run of decimal digits (ValueError otherwise)
IsInt(tok) == tok # <<>> /\ \A i \in 1..Len(tok) : IsDigit(tok[i])

RECURSIVE IntOf(_)
IntOf(tok) ==
    IF tok = <<>> THEN 0
    ELSE 10 * IntOf(SubSeq(tok, 1, Len(tok) - 1)) + DigitVal(tok[Len(tok)])

\* str(n) for n >= 0: decimal digits without leading zeros
RECURSIVE Str(_)
Str(n) == IF n < 10 THEN <<Digits[n + 1]>> ELSE Append(Str(n \div 10), Digits[(n % 10) + 1])

\* sep.join(parts)
RECURSIVE Join(_, _)
Join(sep, parts) ==
    IF parts = <<>> THEN <<>>
    ELSE IF Len(parts) = 1 THEN parts[1]
    ELSE parts[1] \o sep \o Join(sep, Tail(parts))

\* file.readlines(): the lines of a text, each keeping its terminator
RECURSIVE ReadLinesFrom(_, _, _)
ReadLinesFrom(s, cur, acc) ==
    IF s = <<>>
    THEN IF cur = <<>> THEN acc ELSE Append(acc, cur)
    ELSE IF Head(s) = NL
         THEN ReadLinesFrom(Tail(s), <<>>, Append(acc, Append(cur, NL)))
         ELSE ReadLinesFrom(Tail(s), Append(cur, Head(s)), acc)

ReadLines(content) == ReadLinesFrom(content, <<>>, <<>>)

\* the values of a dict
Values(f) == {f[k] : k \in DOMAIN f}

Last(s) == s[Len(s)]

---------------------------------------------------------------------------
(* Names *)

Door == <<"d", "o", "o", "r">>
Bumper == <<"b", "u", "m", "p", "e", "r">>
Hood == <<"h", "o", "o", "d">>
Junk == <<"j", "u", "n", "k">>

\* normalize_annotations_yolo.py DAMAGE_CLASSES, written without diacritics
DAMAGE_CLASSES ==
    { <<"M", "o", "p", ",", " ", "b", "e", "p", "(", "t", "h", "u", "n", "g", ")">>,
      <<"V", "o", ",", " ", "n", "u", "t">>,
      <<"T", "r", "a", "y", ",", " ", "x", "u", "o", "c">>,
      <<"T", "h", "u", "n", "g", ",", " ", "r", "a", "c", "h">>,
      <<"L", "o", "n", "g", ",", " ", "r", "u", "n", "g">>,
      <<"M", "a", "t">> }

Mat == <<"M", "a", "t">>

---------------------------------------------------------------------------
(* normalize_annotations.py: the COCO-style reconciler *)

\* load_standard_categories: trimmed name -> canonical record, a later record
\* of the file replacing an earlier one of the same trimmed name
RECURSIVE LoadCategories(_, _)
LoadCategories(categories, name_to_category) ==
    IF categories = <<>> THEN name_to_category
    ELSE LET cat == Head(categories)
         IN LoadCategories(Tail(categories),
                           (Strip(cat.name) :> cat) @@ name_to_category)

load_standard_categories(categories) == LoadCategories(categories, <<>>)

InitialStats ==
    [categories_found |-> 0, categories_normalized |-> 0,
     annotations_updated |-> 0, unmapped_categories |-> <<>>]

\* one iteration of "for old_cat in data['categories']"
MapCategory(old_cat, standard_categories, acc) ==
    LET old_id == old_cat.id
        old_name == Strip(old_cat.name)
    IN IF old_name \in DOMAIN standard_categories
       THEN [acc EXCEPT
               !.old_to_new_id = (old_id :> standard_categories[old_name].id) @@ @,
               !.categories_normalized = @ + 1]
       ELSE [acc EXCEPT
               !.unmapped_categories = Append(@, [id |-> old_id, name |-> old_name]),
               !.old_to_new_id = (old_id :> old_id) @@ @]

RECURSIVE BuildMapping(_, _, _)
BuildMapping(categories, standard_categories, acc) ==
    IF categories = <<>> THEN acc
    ELSE BuildMapping(Tail(categories), standard_categories,
                      MapCategory(Head(categories), standard_categories, acc))

\* sorted(standard_categories.values(), key=lambda x: x['id'])
RECURSIVE SortedById(_)
SortedById(cats) ==
    IF cats = {} THEN <<>>
    ELSE LET first == CHOOSE c \in cats : \A d \in cats : c.id <= d.id
         IN <<first>> \o SortedById(cats \ {first})

\* mutant: the canonical list sorted descending (reverse=True)
RECURSIVE SortedByIdDescending(_)
SortedByIdDescending(cats) ==
    IF cats = {} THEN <<>>
    ELSE LET first == CHOOSE c \in cats : \A d \in cats : c.id >= d.id
         IN <<first>> \o SortedByIdDescending(cats \ {first})

NewCategoriesDescending(standard_categories) ==
    SortedByIdDescending(Values(standard_categories))

NewCategories(standard_categories) == SortedById(Values(standard_categories))

\* the body of "for ann in data['annotations']"
AnnotationRemapped(ann, old_to_new_id) ==
    "category_id" \in DOMAIN ann /\ ann.category_id \in DOMAIN old_to_new_id

\* mutant: the table is applied again to the id it has just written
UpdateAnnotationChained(ann, old_to_new_id) ==
    IF AnnotationRemapped(ann, old_to_new_id)
    THEN LET once == old_to_new_id[ann.category_id]
         IN [ann EXCEPT !.category_id =
                IF once \in DOMAIN old_to_new_id THEN old_to_new_id[once] ELSE once]
    ELSE ann

UpdateAnnotation(ann, old_to_new_id) ==
    IF AnnotationRemapped(ann, old_to_new_id)
    THEN [ann EXCEPT !.category_id = old_to_new_id[ann.category_id]]
    ELSE ann

\* normalize_annotation_file up to the write: the document it would write and
\* the statistics it returns; write is FALSE on the early return
normalize_annotation_file(data, standard_categories) ==
    IF "categories" \notin DOMAIN data
    THEN [write |-> FALSE, data |-> data, stats |-> InitialStats]
    ELSE
      LET m == BuildMapping(data.categories, standard_categories,
                            [old_to_new_id |-> <<>>, categories_normalized |-> 0,
                             unmapped_categories |-> <<>>])
          anns == IF "annotations" \in DOMAIN data THEN data.annotations ELSE <<>>
          updated == [i \in 1..Len(anns) |-> UpdateAnnotation(anns[i], m.old_to_new_id)]
          with_anns == IF "annotations" \in DOMAIN data
                       THEN [data EXCEPT !.annotations = updated]
                       ELSE data
      IN [write |-> TRUE,
          data |-> [with_anns EXCEPT !.categories = NewCategories(standard_categories)],
          stats |-> [categories_found |-> Len(data.categories),
                     categories_normalized |-> m.categories_normalized,
                     annotations_updated |->
                         Cardinality({i \in 1..Len(anns) :
                                        AnnotationRemapped(anns[i], m.old_to_new_id)}),
                     unmapped_categories |-> m.unmapped_categories]]

\* "if not dry_run: json.dump(data, f)"
WriteAnnotationFile(on_disk, result, dry_run) ==
    IF result.write /\ ~dry_run THEN result.data ELSE on_disk

---------------------------------------------------------------------------
(* normalize_annotations_yolo.py: the YOLO-style reconciler *)

\* dict.items() as a sequence of <<key, value>>; the modelled YAML files list
\* their integer keys in ascending order
RECURSIVE Items(_)
Items(f) ==
    IF DOMAIN f = {} THEN <<>>
    ELSE LET k == CHOOSE a \in DOMAIN f : \A b \in DOMAIN f : a <= b
         IN <<<<k, f[k]>>>> \o Items([b \in DOMAIN f \ {k} |-> f[b]])

\* load_reference_mapping: trimmed class name -> class id
RECURSIVE LoadReference(_, _)
LoadReference(items, class_mapping) ==
    IF items = <<>> THEN class_mapping
    ELSE LoadReference(Tail(items),
                       (Strip(Head(items)[2]) :> Head(items)[1]) @@ class_mapping)

load_reference_mapping(data) == LoadReference(Items(data.names), <<>>)

\* mutant: a class that is not in the reference is passed over without a warning
ClassifyClassSilent(old_id, class_name, reference_mapping, acc) ==
    LET class_name_clean == Strip(class_name)
    IN IF class_name_clean \in DAMAGE_CLASSES
       THEN [acc EXCEPT !.damage_class_ids = Append(@, old_id)]
       ELSE IF class_name_clean \in DOMAIN reference_mapping
       THEN [acc EXCEPT !.id_mapping = (old_id :> reference_mapping[class_name_clean]) @@ @]
       ELSE acc

\* mutant: the reference mapping is consulted before the damage names
ClassifyClassReferenceFirst(old_id, class_name, reference_mapping, acc) ==
    LET class_name_clean == Strip(class_name)
    IN IF class_name_clean \in DOMAIN reference_mapping
       THEN [acc EXCEPT !.id_mapping = (old_id :> reference_mapping[class_name_clean]) @@ @]
       ELSE IF class_name_clean \in DAMAGE_CLASSES
       THEN [acc EXCEPT !.damage_class_ids = Append(@, old_id)]
       ELSE [acc EXCEPT !.warnings = Append(@, [id |-> old_id, name |-> class_name])]

\* one iteration of "for old_id, class_name in data['names'].items()";
\* warnings collects the logger.warning calls
ClassifyClass(old_id, class_name, reference_mapping, acc) ==
    LET class_name_clean == Strip(class_name)
    IN IF class_name_clean \in DAMAGE_CLASSES
       THEN [acc EXCEPT !.damage_class_ids = Append(@, old_id)]
       ELSE IF class_name_clean \in DOMAIN reference_mapping
       THEN [acc EXCEPT !.id_mapping = (old_id :> reference_mapping[class_name_clean]) @@ @]
       ELSE [acc EXCEPT !.warnings = Append(@, [id |-> old_id, name |-> class_name])]

RECURSIVE ClassifyAll(_, _, _)
ClassifyAll(items, reference_mapping, acc) ==
    IF items = <<>> THEN acc
    ELSE ClassifyAll(Tail(items), reference_mapping,
                     ClassifyClass(Head(items)[1], Head(items)[2], reference_mapping, acc))

NoMapping ==
    [id_mapping |-> <<>>, damage_class_ids |-> <<>>, warnings |-> <<>>, no_names |-> FALSE]

create_class_id_mapping(data, reference_mapping) ==
    IF "names" \notin DOMAIN data
    THEN [NoMapping EXCEPT !.no_names = TRUE]
    ELSE ClassifyAll(Items(data.names), reference_mapping, NoMapping)

InList(x, list) == \E i \in 1..Len(list) : list[i] = x

\* normalize_data_yaml: the content it dumps
normalized_data(reference_mapping) ==
    [train |-> "images/train",
     val |-> "images/val",
     names |-> [class_id \in Values(reference_mapping) |->
                  CHOOSE class_name \in DOMAIN reference_mapping :
                      reference_mapping[class_name] = class_id]]

\* mutant: the canonical names are merged into the manifest, a names field
\* that the dataset already has being kept
normalize_data_yaml_keeps_names(on_disk, reference_mapping, dry_run) ==
    IF ~dry_run
    THEN IF "names" \in DOMAIN on_disk
         THEN [normalized_data(reference_mapping) EXCEPT !.names = on_disk.names]
         ELSE normalized_data(reference_mapping)
    ELSE on_disk

normalize_data_yaml(on_disk, reference_mapping, dry_run) ==
    IF ~dry_run THEN normalized_data(reference_mapping) ELSE on_disk

\* one iteration of "for line in lines" of normalize_label_file; acc.origin
\* is history: the index of the input line each kept line comes from
\* mutant: parts[0] is not replaced
RemapPartsKeepsOld(parts, new_class_id) == parts

RemapParts(parts, new_class_id) == <<Str(new_class_id)>> \o Tail(parts)

\* mutant: the kept line is rebuilt from its tokens
KeptLineRejoined(line) == Join(<<SP>>, Split(line))

KeptLine(line) == line

\* mutant: a line without a class id is counted as removed
LabelLineCountsMalformed(index, raw, id_mapping, damage_class_ids, acc) ==
    LET line == Strip(raw)
        parts == Split(line)
    IN IF line = <<>> THEN acc
       ELSE IF Len(parts) < 2 \/ ~IsInt(parts[1])
       THEN [acc EXCEPT !.num_removed = @ + 1]
       ELSE LET old_class_id == IntOf(parts[1])
            IN IF InList(old_class_id, damage_class_ids)
               THEN [acc EXCEPT !.num_removed = @ + 1]
               ELSE IF old_class_id \in DOMAIN id_mapping
               THEN [acc EXCEPT
                       !.new_lines = Append(@, Join(<<SP>>,
                                        RemapParts(parts, id_mapping[old_class_id]))),
                       !.origin = Append(@, index),
                       !.num_remapped = @ + 1]
               ELSE [acc EXCEPT
                       !.new_lines = Append(@, KeptLine(line)),
                       !.origin = Append(@, index)]

LabelLine(index, raw, id_mapping, damage_class_ids, acc) ==
    LET line == Strip(raw)
        parts == Split(line)
    IN IF line = <<>> THEN acc
       ELSE IF Len(parts) < 2 THEN acc
       ELSE IF ~IsInt(parts[1]) THEN acc
       ELSE LET old_class_id == IntOf(parts[1])
            IN IF InList(old_class_id, damage_class_ids)
               THEN [acc EXCEPT !.num_removed = @ + 1]
               ELSE IF old_class_id \in DOMAIN id_mapping
               THEN [acc EXCEPT
                       !.new_lines = Append(@, Join(<<SP>>,
                                        RemapParts(parts, id_mapping[old_class_id]))),
                       !.origin = Append(@, index),
                       !.num_remapped = @ + 1]
               ELSE [acc EXCEPT
                       !.new_lines = Append(@, KeptLine(line)),
                       !.origin = Append(@, index)]

RECURSIVE LabelLines(_, _, _, _, _)
LabelLines(index, lines, id_mapping, damage_class_ids, acc) ==
    IF index > Len(lines) THEN acc
    ELSE LabelLines(index + 1, lines, id_mapping, damage_class_ids,
                    LabelLine(index, lines[index], id_mapping, damage_class_ids, acc))

\* mutant: the last line is left without terminator
WrittenLabelsUnterminated(new_lines) == Join(<<NL>>, new_lines)

\* f.write('\n'.join(new_lines)); if new_lines: f.write('\n')
WrittenLabels(new_lines) ==
    Join(<<NL>>, new_lines) \o (IF new_lines # <<>> THEN <<NL>> ELSE <<>>)

\* lines 199-205, r being the outcome of the loop over the lines
LabelFileWritten(content, r, dry_run) ==
    [content |-> IF ~dry_run THEN WrittenLabels(r.new_lines) ELSE content,
     num_remapped |-> r.num_remapped,
     num_removed |-> r.num_removed,
     origin |-> r.origin]

\* mutant: the file is written in a dry run too
normalize_label_file_always_writes(content, id_mapping, damage_class_ids, dry_run) ==
    LabelFileWritten(content,
                     LabelLines(1, ReadLines(content), id_mapping, damage_class_ids,
                                [new_lines |-> <<>>, origin |-> <<>>,
                                 num_remapped |-> 0, num_removed |-> 0]),
                     FALSE)

\* normalize_label_file on an existing file: the content left on disk, the two
\* counts it returns, and the origin history
normalize_label_file(content, id_mapping, damage_class_ids, dry_run) ==
    LabelFileWritten(content,
                     LabelLines(1, ReadLines(content), id_mapping, damage_class_ids,
                                [new_lines |-> <<>>, origin |-> <<>>,
                                 num_remapped |-> 0, num_removed |-> 0]),
                     dry_run)

\* "if not label_path.exists(): return 0, 0"
MissingLabelFile == [num_remapped |-> 0, num_removed |-> 0]

\* entries that rglob lists and exists() denies: dangling symbolic links
BrokenLinks == {<<"labels", "train", "gone.txt">>}

\* dataset_dir.rglob("*.txt")
RglobTxt(files) == DOMAIN files \cup BrokenLinks

\* how the directory names are spelled
Spelling ==
    [labels |-> <<"l", "a", "b", "e", "l", "s">>,
     no_labels |-> <<"n", "o", "_", "l", "a", "b", "e", "l", "s">>,
     train |-> <<"t", "r", "a", "i", "n">>,
     val |-> <<"v", "a", "l">>,
     datasets |-> <<"d", "a", "t", "a", "s", "e", "t", "s">>,
     ds |-> <<"d", "s">>,
     a |-> <<"a">>,
     b |-> <<"b">>,
     sub |-> <<"s", "u", "b">>]

\* str(directory): the names of its segments joined with "/"
PathStr(dir) == Join(<<"/">>, [i \in 1..Len(dir) |-> Spelling[dir[i]]])

\* "sub in text" of Python strings
Contains(text, sub) ==
    \/ sub = <<>>
    \/ \E i \in 1..(Len(text) - Len(sub) + 1) :
          text[i] = sub[1] /\ SubSeq(text, i, i + Len(sub) - 1) = sub

\* f.parent of a path: a path is a sequence of segments, the file name last
Parent(path) == SubSeq(path, 1, Len(path) - 1)

\* the filter of normalize_dataset over rglob("*.txt"), path being the path
\* of the file as rglob yields it: that of the dataset directory, then the
\* segments below it
IsLabelFile(path) ==
    \/ Parent(path) # <<>> /\ Last(Parent(path)) \in {"train", "val"}
    \/ Contains(PathStr(Parent(path)), Spelling["labels"])

\* one iteration of "for label_path in label_files"; acc.returned is history:
\* what normalize_label_file returned for each path
LabelFileDone(label_path, r, acc) ==
    [txtFiles |-> [acc.txtFiles EXCEPT ![label_path] = r.content],
     total_remapped |-> acc.total_remapped + r.num_remapped,
     total_removed |-> acc.total_removed + r.num_removed,
     origin |-> (label_path :> r.origin) @@ acc.origin,
     returned |-> (label_path :> [num_remapped |-> r.num_remapped,
                                  num_removed |-> r.num_removed])
                  @@ acc.returned]

LabelFileStep(label_path, id_mapping, damage_class_ids, dry_run, acc) ==
    IF label_path \notin DOMAIN acc.txtFiles
    THEN [acc EXCEPT !.returned = (label_path :> MissingLabelFile) @@ @]
    ELSE LabelFileDone(label_path,
                       normalize_label_file(acc.txtFiles[label_path], id_mapping,
                                            damage_class_ids, dry_run),
                       acc)

\* "for label_path in label_files": the files rewritten and the totals
RECURSIVE LabelFilesLoop(_, _, _, _, _)
LabelFilesLoop(label_files, id_mapping, damage_class_ids, dry_run, acc) ==
    IF label_files = {} THEN acc
    ELSE LET label_path == CHOOSE p \in label_files : TRUE
         IN LabelFilesLoop(label_files \ {label_path}, id_mapping, damage_class_ids,
                           dry_run,
                           LabelFileStep(label_path, id_mapping, damage_class_ids,
                                         dry_run, acc))

\* lines 246-257: what normalize_dataset leaves on disk and returns, m being
\* the outcome of create_class_id_mapping and done that of the loop
DatasetDone(yaml, reference_mapping, dry_run, m, label_files, done) ==
    [dataYaml |-> normalize_data_yaml(yaml, reference_mapping, dry_run),
     txtFiles |-> done.txtFiles,
     stats |-> [label_files |-> Cardinality(label_files),
                annotations_remapped |-> done.total_remapped,
                annotations_removed |-> done.total_removed,
                classes_mapped |-> Cardinality(DOMAIN m.id_mapping),
                damage_classes |-> Len(m.damage_class_ids)],
     id_mapping |-> m.id_mapping,
     damage_class_ids |-> m.damage_class_ids,
     warnings |-> m.warnings,
     no_names |-> m.no_names,
     origin |-> done.origin,
     returned |-> done.returned,
     raised |-> FALSE]

\* lines 230-244, m being the outcome of create_class_id_mapping
DatasetLabels(yaml, files, reference_mapping, dry_run, m, label_files) ==
    DatasetDone(yaml, reference_mapping, dry_run, m, label_files,
                LabelFilesLoop(label_files, m.id_mapping, m.damage_class_ids, dry_run,
                               [txtFiles |-> files, total_remapped |-> 0,
                                total_removed |-> 0, origin |-> <<>>,
                                returned |-> <<>>]))

\* the call ends with the exception that yaml.safe_load raised, the files
\* being as they were when it was raised
DatasetRaised(yaml, files) == [raised |-> TRUE, dataYaml |-> yaml, txtFiles |-> files]

\* mutant: the manifest is rewritten first, and the table is built from the
\* manifest as it then is
normalize_dataset_rewrites_first(dataset_dir, yaml, files, reference_mapping, dry_run) ==
    IF "syntax_error" \in DOMAIN normalize_data_yaml(yaml, reference_mapping, dry_run)
    THEN DatasetRaised(normalize_data_yaml(yaml, reference_mapping, dry_run), files)
    ELSE DatasetLabels(yaml, files, reference_mapping, dry_run,
                       create_class_id_mapping(
                           normalize_data_yaml(yaml, reference_mapping, dry_run),
                           reference_mapping),
                       {p \in RglobTxt(files) : IsLabelFile(dataset_dir \o p)})

\* normalize_dataset: what it leaves on disk and the statistics it returns;
\* files are the .txt files below dataset_dir, by their path relative to it.
\* create_class_id_mapping is called first and reads the manifest: when the
\* manifest does not parse nothing has been written
normalize_dataset(dataset_dir, yaml, files, reference_mapping, dry_run) ==
    IF "syntax_error" \in DOMAIN yaml
    THEN DatasetRaised(yaml, files)
    ELSE DatasetLabels(yaml, files, reference_mapping, dry_run,
                       create_class_id_mapping(yaml, reference_mapping),
                       {p \in RglobTxt(files) : IsLabelFile(dataset_dir \o p)})

---------------------------------------------------------------------------
(* The files the scripts are run on *)

Padded(name) == <<SP>> \o name \o <<SP>>

\* categories.json: canonical ids unique and dense, names unique after
\* trimming; the file need not list them in id order
CategoriesFiles ==
    { <<[id |-> 1, name |-> Door], [id |-> 0, name |-> Bumper]>>,
      <<[id |-> 2, name |-> Hood], [id |-> 0, name |-> Padded(Bumper)],
        [id |-> 1, name |-> Door]>> }

LocalIds == {0, 1, 3}

LocalNames == {Door, Padded(Bumper), Junk}

SeqsUpTo(S, n) == UNION {[1..k -> S] : k \in 0..n}

\* the category list of a document: each local id declared once
CategoryLists ==
    {cs \in SeqsUpTo([id : LocalIds, name : LocalNames], MaxCats) :
        \A i, j \in 1..Len(cs) : i # j => cs[i].id # cs[j].id}

Annotations ==
    {[image_id |-> 1]} \cup {[image_id |-> 1, category_id |-> c] : c \in LocalIds}

AnnDocs ==
    {[images |-> <<>>]}
    \cup {[images |-> <<>>, categories |-> cs] : cs \in CategoryLists}
    \cup {[images |-> <<>>, categories |-> cs, annotations |-> as] :
            cs \in CategoryLists, as \in SeqsUpTo(Annotations, MaxAnns)}

\* reference data.yaml; the second one also lists a damage name
ReferenceYamls ==
    { [names |-> (0 :> Bumper) @@ (1 :> Door)],
      [names |-> (0 :> Padded(Door)) @@ (1 :> Bumper) @@ (2 :> Mat)] }

ClassNames == {Door, Padded(Bumper), Junk, Mat}

\* a dataset's data.yaml, with or without a names field
DataYamls ==
    {[train |-> "train/images", val |-> "valid/images"]}
    \cup {[train |-> "train/images", val |-> "valid/images", names |-> ns] :
            ns \in UNION {[ids -> ClassNames] : ids \in SUBSET LocalIds}}

\* label lines: plain, zero-padded id with a double space, non-numeric id
LabelLineTexts ==
    { <<"0", SP, "5", SP, "6">>,
      <<"0", "1", SP, SP, "5">>,
      <<"x", SP, "5">> }

\* a text file of at most MaxLines lines, the last one terminated or not
TextFiles ==
    {Join(<<NL>>, ls) \o end : ls \in SeqsUpTo(LabelLineTexts, MaxLines),
                               end \in {<<>>, <<NL>>}}

PathA == <<"labels", "train", "a.txt">>
PathB == <<"labels", "val", "b.txt">>
PathC == <<"classes.txt">>
PathD == <<"no_labels", "d.txt">>

\* the directory of the dataset, as main() finds it below the root
DatasetDir == <<"datasets", "ds">>

\* b.txt: a plain line, an empty line, a line with surrounding and doubled
\* spaces, a single token, and a last line without terminator
FixedB ==
    <<"1", SP, "5", SP, "6", NL, NL, SP, "3", SP, SP, "5", SP, NL, "1", NL, "0", SP, "7">>
FixedC == <<"0", SP, "d", "o", "o", "r", NL>>

\* d.txt: a list that is not a label file
FixedD == <<"0", SP, "7", NL>>

---------------------------------------------------------------------------
(* State machine: the operator runs one script, possibly several times *)

\* no run of main() over a root directory
NoTree == [manifests |-> <<>>, labels |-> <<>>, docs |-> <<>>]

NoProc == [pc |-> "idle"]

\* no download pool
NoPool ==
    /\ workers = <<>>
    /\ outdir = [files |-> <<>>, ops |-> {}]
    /\ counter = [total |-> 0]

Init ==
    /\ script \in {"coco", "yolo"}
    /\ log = <<>>
    /\ tree = NoTree
    /\ proc = NoProc
    /\ NoPool
    /\ IF script = "coco"
       THEN /\ categoriesFile \in CategoriesFiles
            /\ annDoc \in AnnDocs
            /\ referenceYaml = [names |-> <<>>]
            /\ dataYaml = [names |-> <<>>]
            /\ txtFiles = <<>>
       ELSE /\ categoriesFile = <<>>
            /\ annDoc = [images |-> <<>>]
            /\ referenceYaml \in ReferenceYamls
            /\ dataYaml \in DataYamls
            /\ \E a \in TextFiles :
                 txtFiles = (PathA :> a) @@ (PathB :> FixedB) @@ (PathC :> FixedC)
                            @@ (PathD :> FixedD)

\* the effect of one finished run of normalize_annotations.py
CocoRun(r, dry_run) ==
    /\ annDoc' = WriteAnnotationFile(annDoc, r, dry_run)
    /\ log' = Append(log, [dry_run |-> dry_run, before |-> annDoc, stats |-> r.stats])

\* main() of normalize_annotations.py on the one annotation file
NormalizeAnnotations(dry_run) ==
    /\ script = "coco"
    /\ Len(log) < MaxRuns
    /\ CocoRun(normalize_annotation_file(annDoc, load_standard_categories(categoriesFile)),
               dry_run)
    /\ UNCHANGED <<script, categoriesFile, referenceYaml, dataYaml, txtFiles, tree, proc, pool>>

\* the effect of one finished run of normalize_annotations_yolo.py
YoloRun(r, dry_run) ==
    /\ dataYaml' = r.dataYaml
    /\ txtFiles' = r.txtFiles
    /\ log' = Append(log, [dry_run |-> dry_run,
                           before |-> [dataYaml |-> dataYaml, txtFiles |-> txtFiles],
                           stats |-> r.stats, id_mapping |-> r.id_mapping,
                           damage_class_ids |-> r.damage_class_ids,
                           warnings |-> r.warnings, no_names |-> r.no_names,
                           origin |-> r.origin, returned |-> r.returned])

\* main() of normalize_annotations_yolo.py on the one dataset
NormalizeYolo(dry_run) ==
    /\ script = "yolo"
    /\ Len(log) < MaxRuns
    /\ YoloRun(normalize_dataset(DatasetDir, dataYaml, txtFiles,
                                 load_reference_mapping(referenceYaml), dry_run),
               dry_run)
    /\ UNCHANGED <<script, categoriesFile, annDoc, referenceYaml, tree, proc, pool>>

RunCoco == \E dry_run \in BOOLEAN : NormalizeAnnotations(dry_run)

RunYolo == \E dry_run \in BOOLEAN : NormalizeYolo(dry_run)

Next == RunCoco \/ RunYolo

Spec == Init /\ [][Next]_vars

---------------------------------------------------------------------------
(* main() of the two reconcilers over a root directory *)

\* a file that the parser rejects: yaml.safe_load / json.load raise on it
SyntaxError == [syntax_error |-> TRUE]

Raises(content) == "syntax_error" \in DOMAIN content

\* the root directory of the datasets
RootDir == <<"datasets">>

\* dataset directories, as paths below the root
DirA == <<"a">>
DirASub == <<"a", "sub">>
DirB == <<"b">>

\* list.sort() of the data.yaml paths
SortedDirs == <<DirA, DirASub, DirB>>

\* path is below directory dir
Under(dir, path) == Len(path) > Len(dir) /\ SubSeq(path, 1, Len(dir)) = dir

Relative(dir, path) == SubSeq(path, Len(dir) + 1, Len(path))

\* the .txt files below dataset_dir, by their path relative to it
DatasetFiles(t, dir) ==
    [rel \in {Relative(dir, p) : p \in {q \in DOMAIN t.labels : Under(dir, q)}} |->
       t.labels[dir \o rel]]

\* what normalize_dataset, returning r, leaves of tree t
DatasetWritten(t, dir, r) ==
    [t EXCEPT !.manifests[dir] = r.dataYaml,
              !.labels = [p \in DOMAIN t.labels |->
                            IF Under(dir, p) THEN r.txtFiles[Relative(dir, p)]
                            ELSE t.labels[p]]]

\* the run of normalize_dataset on the dataset of directory dir: the tree it
\* leaves, its statistics, and the label files it passed to normalize_label_file
DatasetResult(t, dir, r) ==
    IF r.raised
    THEN [raised |-> TRUE, tree |-> DatasetWritten(t, dir, r)]
    ELSE [raised |-> FALSE,
          tree |-> DatasetWritten(t, dir, r),
          stats |-> [dataset |-> dir, label_files |-> r.stats.label_files,
                     annotations_remapped |-> r.stats.annotations_remapped,
                     annotations_removed |-> r.stats.annotations_removed],
          label_files |-> {dir \o rel : rel \in DOMAIN r.origin}]

DatasetRun(t, dir, reference_mapping, dry_run) ==
    DatasetResult(t, dir, normalize_dataset(RootDir \o dir, t.manifests[dir],
                                            DatasetFiles(t, dir),
                                            reference_mapping, dry_run))

\* mutant: the handler of the run loop lets the exception go
OnDatasetErrorRaise(p, dir) ==
    [p EXCEPT !.pc = "traceback",
              !.diag = Append(@, "Exception"),
              !.touched = @ \cup {dir \o <<"data.yaml">>}]

\* "except Exception as e: logger.error(...); continue"
OnDatasetError(p, dir) ==
    [p EXCEPT !.errors = Append(@, dir),
              !.queue = Tail(@),
              !.touched = @ \cup {dir \o <<"data.yaml">>}]

\* the body of "try:" of the run loop, normalize_dataset having returned d
OnDatasetDone(p, dir, d) ==
    [p EXCEPT !.all_stats = Append(@, d.stats),
              !.queue = Tail(@),
              !.touched = @ \cup {dir \o <<"data.yaml">>} \cup d.label_files,
              !.rewrites = @ \o (IF p.dry_run THEN <<>>
                                 ELSE LET f == CHOOSE g \in [1..Cardinality(d.label_files)
                                                               -> d.label_files] :
                                                 \A i, j \in DOMAIN g : i # j => g[i] # g[j]
                                      IN [i \in DOMAIN f |->
                                            [path |-> f[i], dataset |-> dir]])]

\* ---- normalize_annotations_yolo.py

\* main() up to the run loop: load_reference_mapping, find_all_data_yaml_files
YoloStart ==
    /\ script = "yolo"
    /\ proc.pc = "start"
    /\ proc' =
         IF ~proc.canonical_exists
         THEN [proc EXCEPT !.pc = "exit", !.diag = Append(@, "Reference file not found")]
         ELSE IF ~proc.root_exists
         THEN [proc EXCEPT !.pc = "exit", !.diag = Append(@, "Root directory not found")]
         ELSE [proc EXCEPT !.pc = "loop",
                           !.queue = SelectSeq(SortedDirs,
                                               LAMBDA d : d \in DOMAIN tree.manifests)]
    /\ UNCHANGED <<script, categoriesFile, annDoc, referenceYaml, dataYaml, txtFiles, log,
                   tree, pool>>

\* the "try:" of the run loop, the call of normalize_dataset having ended as d
YoloDataset(dir, d) ==
    /\ proc' = IF d.raised THEN OnDatasetError(proc, dir) ELSE OnDatasetDone(proc, dir, d)
    /\ tree' = d.tree

\* one iteration of "for data_yaml_path in pbar"
YoloProcessDataset ==
    /\ script = "yolo"
    /\ proc.pc = "loop"
    /\ proc.queue # <<>>
    /\ YoloDataset(Head(proc.queue),
                   DatasetRun(tree, Head(proc.queue), load_reference_mapping(referenceYaml),
                              proc.dry_run))
    /\ UNCHANGED <<script, categoriesFile, annDoc, referenceYaml, dataYaml, txtFiles, log,
                   pool>>

\* the run loop over the datasets taken in the given order: the tree it leaves
RECURSIVE ProcessAll(_, _, _, _)
ProcessAll(order, t, reference_mapping, dry_run) ==
    IF order = <<>> THEN t
    ELSE ProcessAll(Tail(order),
                    DatasetRun(t, Head(order), reference_mapping, dry_run).tree,
                    reference_mapping, dry_run)

\* ---- normalize_annotations.py

Perms(S) ==
    {f \in [1..Cardinality(S) -> S] : \A i, j \in 1..Cardinality(S) : i # j => f[i] # f[j]}

\* main() up to the loop: load_standard_categories opens the canonical file,
\* find_all_annotation_files lists what rglob yields, in the order it yields it
CocoStart ==
    /\ script = "coco"
    /\ proc.pc = "start"
    /\ \E order \in Perms(DOMAIN tree.docs) :
         proc' =
           IF ~proc.canonical_exists
           THEN [proc EXCEPT !.pc = "traceback", !.diag = Append(@, "FileNotFoundError")]
           ELSE IF ~proc.root_exists
           THEN [proc EXCEPT !.pc = "loop", !.queue = <<>>]
           ELSE [proc EXCEPT !.pc = "loop", !.queue = order]
    /\ UNCHANGED <<script, categoriesFile, annDoc, referenceYaml, dataYaml, txtFiles, log,
                   tree, pool>>

\* one iteration of "for ann_file in tqdm(annotation_files)"
CocoProcessFile ==
    /\ script = "coco"
    /\ proc.pc = "loop"
    /\ proc.queue # <<>>
    /\ LET ann_file == Head(proc.queue)
       IN IF Raises(tree.docs[ann_file])
          THEN /\ proc' = [proc EXCEPT !.pc = "traceback",
                                       !.diag = Append(@, "JSONDecodeError"),
                                       !.touched = @ \cup {ann_file}]
               /\ tree' = tree
          ELSE LET r == normalize_annotation_file(tree.docs[ann_file],
                                                  load_standard_categories(categoriesFile))
               IN /\ proc' = [proc EXCEPT !.all_stats =
                                             Append(@, [file |-> ann_file,
                                                        categories_found |->
                                                           r.stats.categories_found]),
                                          !.queue = Tail(@),
                                          !.touched = @ \cup {ann_file}]
                  /\ tree' = [tree EXCEPT !.docs[ann_file] =
                                 WriteAnnotationFile(@, r, proc.dry_run)]
    /\ UNCHANGED <<script, categoriesFile, annDoc, referenceYaml, dataYaml, txtFiles, log,
                   pool>>

\* the summary that both scripts print after the loop
Summary ==
    /\ proc.pc = "loop"
    /\ proc.queue = <<>>
    /\ proc' = [proc EXCEPT !.pc = "done"]
    /\ UNCHANGED <<script, categoriesFile, annDoc, referenceYaml, dataYaml, txtFiles, log,
                   tree, pool>>

\* ---- the root directories

\* a dataset's manifest: it swaps the two canonical ids, or declares a damage
\* class and a canonical one, or has no names, or does not parse
MainManifests ==
    { [train |-> "train/images", val |-> "valid/images",
       names |-> (0 :> Door) @@ (1 :> Bumper)],
      [train |-> "train/images", val |-> "valid/images",
       names |-> (0 :> Mat) @@ (1 :> Door)],
      [train |-> "train/images", val |-> "valid/images"],
      SyntaxError }

MainLabels == <<"0", SP, "5", NL, "1", SP, "6", NL>>

\* at most MaxDatasets directories, nested or not
Layouts == {ds \in SUBSET {DirA, DirASub, DirB} : Cardinality(ds) \in 1..MaxDatasets}

YoloTrees ==
    UNION {{[manifests |-> ms,
             labels |-> [p \in {d \o <<"labels", "train", "x.txt">> : d \in ds} |->
                           MainLabels],
             docs |-> <<>>] : ms \in [ds -> MainManifests]} : ds \in Layouts}

MainDocs ==
    { [images |-> <<>>],
      [images |-> <<>>,
       categories |-> <<[id |-> 0, name |-> Door], [id |-> 3, name |-> Junk]>>,
       annotations |-> <<[image_id |-> 1, category_id |-> 0]>>],
      SyntaxError }

CocoTrees ==
    UNION {{[manifests |-> <<>>, labels |-> <<>>, docs |-> docs] :
              docs \in [{d \o <<"annotations.json">> : d \in ds} -> MainDocs]} :
           ds \in Layouts}

StartProc(dry_run, canonical_exists, root_exists, t) ==
    [pc |-> "start", dry_run |-> dry_run,
     canonical_exists |-> canonical_exists, root_exists |-> root_exists,
     queue |-> <<>>, all_stats |-> <<>>, errors |-> <<>>, diag |-> <<>>,
     touched |-> {}, rewrites |-> <<>>, before |-> t]

MainInit ==
    /\ script \in {"coco", "yolo"}
    /\ log = <<>>
    /\ annDoc = [images |-> <<>>]
    /\ dataYaml = [names |-> <<>>]
    /\ txtFiles = <<>>
    /\ NoPool
    /\ IF script = "coco"
       THEN /\ categoriesFile \in CategoriesFiles
            /\ referenceYaml = [names |-> <<>>]
       ELSE /\ categoriesFile = <<>>
            /\ referenceYaml \in ReferenceYamls
    /\ \E dry_run, canonical_exists, root_exists \in BOOLEAN :
         /\ tree \in IF ~root_exists THEN {NoTree}
                     ELSE IF script = "coco" THEN CocoTrees ELSE YoloTrees
         /\ proc = StartProc(dry_run, canonical_exists, root_exists, tree)

MainNext == YoloStart \/ YoloProcessDataset \/ CocoStart \/ CocoProcessFile \/ Summary

MainSpec == MainInit /\ [][MainNext]_vars

---------------------------------------------------------------------------
(* batch_download_and_copy_labels.py: the download pool of process_dataset *)

max_retries == 3

\* get_extension_from_url: the extension found in the url's path, else .jpg
get_extension_from_url(url) == IF url = "" THEN ".jpg" ELSE url

\* download_single_image, lines 82-94: the output file name of an item
Filename(item) ==
    [prefixed |-> FALSE,
     stem |-> item.name.stem,
     ext |-> IF item.name.ext = "" THEN get_extension_from_url(item.url)
             ELSE item.name.ext]

\* the call of download_single_image for one item, as submitted to the pool;
\* attempts, sleeps and counted are history
StartWorker(item) ==
    [pc |-> "check", filename |-> Filename(item), attempt |-> 0, status |-> "",
     tmp |-> 0, ret |-> "", attempts |-> 0, sleeps |-> <<>>, counted |-> <<>>]

ProgressCounter(total) ==
    [total |-> total, completed |-> 0, downloaded |-> 0, skipped |-> 0, errors |-> 0,
     error_details |-> <<>>, lock |-> 0]

\* the call of worker w is at position pc
At(w, pc) == w \in DOMAIN workers /\ workers[w].pc = pc

Exists(filepath) == filepath \in DOMAIN outdir.files

Remove(files, filepath) == [f \in DOMAIN files \ {filepath} |-> files[f]]

\* line 97: "if os.path.exists(filepath)", and the prefixed name of lines 99-101
CheckConflict(w) ==
    /\ At(w, "check")
    /\ workers' = [workers EXCEPT ![w] =
          IF Exists(@.filename)
          THEN [@ EXCEPT !.filename.prefixed = TRUE, !.pc = "check_prefixed"]
          ELSE [@ EXCEPT !.pc = "fetch"]]
    /\ UNCHANGED <<outdir, counter, reconcilers>>

\* line 104: "if os.path.exists(filepath)" for the prefixed name
CheckPrefixed(w) ==
    /\ At(w, "check_prefixed")
    /\ workers' = [workers EXCEPT ![w] =
          IF Exists(@.filename)
          THEN [@ EXCEPT !.status = "skipped", !.pc = "increment"]
          ELSE [@ EXCEPT !.pc = "fetch"]]
    /\ UNCHANGED <<outdir, counter, reconcilers>>

\* lines 111-116: one attempt; urlopen answers or raises
Fetch(w) ==
    /\ At(w, "fetch")
    /\ \E answered \in BOOLEAN :
         workers' = [workers EXCEPT ![w].attempts = @ + 1,
                                    ![w].pc = IF answered THEN "open" ELSE "except"]
    /\ UNCHANGED <<outdir, counter, reconcilers>>

\* line 117: open(filepath, 'wb') creates the file or truncates it
Open(w) ==
    /\ At(w, "open")
    /\ outdir' = [files |-> (workers[w].filename :> "partial") @@ outdir.files,
                  ops |-> outdir.ops \cup {<<workers[w].filename, w, "write">>}]
    /\ workers' = [workers EXCEPT ![w].pc = "write"]
    /\ UNCHANGED <<counter, reconcilers>>

\* lines 118-123: the chunks are read and written to the end, or read raises;
\* a file unlinked meanwhile stays unlinked
Write(w) ==
    /\ At(w, "write")
    /\ \E complete \in BOOLEAN :
         IF complete
         THEN /\ outdir' = [outdir EXCEPT !.files =
                               IF Exists(workers[w].filename)
                               THEN [@ EXCEPT ![workers[w].filename] = "complete"]
                               ELSE @]
              /\ workers' = [workers EXCEPT ![w].status = "success",
                                            ![w].pc = "increment"]
         ELSE /\ outdir' = outdir
              /\ workers' = [workers EXCEPT ![w].pc = "except"]
    /\ UNCHANGED <<counter, reconcilers>>

\* lines 129-133: "except Exception", before the last attempt
Except(w) ==
    /\ At(w, "except")
    /\ workers' = [workers EXCEPT ![w] =
          IF @.attempt < max_retries - 1
          THEN [@ EXCEPT !.sleeps = Append(@, 2 ^ workers[w].attempt),
                         !.attempt = @ + 1,
                         !.pc = "fetch"]
          ELSE [@ EXCEPT !.pc = "exists"]]
    /\ UNCHANGED <<outdir, counter, reconcilers>>

\* line 134: "if os.path.exists(filepath)" after the last attempt
RemoveCheck(w) ==
    /\ At(w, "exists")
    /\ workers' = [workers EXCEPT ![w] =
          IF Exists(@.filename)
          THEN [@ EXCEPT !.pc = "remove"]
          ELSE [@ EXCEPT !.status = "error", !.pc = "increment"]]
    /\ UNCHANGED <<outdir, counter, reconcilers>>

\* line 135: os.remove(filepath); FileNotFoundError leaves the function
RemoveFile(w) ==
    /\ At(w, "remove")
    /\ IF Exists(workers[w].filename)
       THEN /\ outdir' = [files |-> Remove(outdir.files, workers[w].filename),
                          ops |-> outdir.ops \cup {<<workers[w].filename, w, "remove">>}]
            /\ workers' = [workers EXCEPT ![w].status = "error", ![w].pc = "increment"]
       ELSE /\ outdir' = outdir
            /\ workers' = [workers EXCEPT ![w].ret = "FileNotFoundError",
                                          ![w].pc = "raised"]
    /\ UNCHANGED <<counter, reconcilers>>

\* "with self.lock:" is entered when no other thread holds the lock
LockFree(c) == c.lock = 0

\* ProgressCounter.increment, line 36
Acquire(w) ==
    /\ At(w, "increment")
    /\ LockFree(counter)
    /\ counter' = [counter EXCEPT !.lock = w]
    /\ workers' = [workers EXCEPT ![w].pc = "load"]
    /\ UNCHANGED <<outdir, reconcilers>>

\* line 37, "self.completed += 1": the load
IncrementLoad(w) ==
    /\ At(w, "load")
    /\ workers' = [workers EXCEPT ![w].tmp = counter.completed, ![w].pc = "store"]
    /\ UNCHANGED <<outdir, counter, reconcilers>>

\* lines 37-46: the store, the counter of the status, the end of "with", and
\* the return of download_single_image
IncrementStore(w) ==
    /\ At(w, "store")
    /\ LET status == workers[w].status
       IN counter' =
            [counter EXCEPT
               !.completed = workers[w].tmp + 1,
               !.downloaded = IF status = "success" THEN @ + 1 ELSE @,
               !.skipped = IF status = "skipped" THEN @ + 1 ELSE @,
               !.errors = IF status = "error" THEN @ + 1 ELSE @,
               !.error_details = IF status = "error"
                                 THEN Append(@, <<workers[w].filename, "error text">>)
                                 ELSE @,
               !.lock = 0]
    /\ workers' = [workers EXCEPT
                     ![w].counted = Append(@, workers[w].status),
                     ![w].ret = IF workers[w].status = "error" THEN "None" ELSE "filename",
                     ![w].pc = "returned"]
    /\ UNCHANGED <<outdir, reconcilers>>

\* an item of images.json: a name with or without extension, and what the url
\* says of the extension
ImageItems ==
    { [name |-> [stem |-> "a", ext |-> ".jpg"], url |-> ""],
      [name |-> [stem |-> "a", ext |-> ""], url |-> ""],
      [name |-> [stem |-> "b", ext |-> ""], url |-> ".png"] }

\* the output directory before the pool starts: empty, or holding a.jpg of an
\* earlier dataset, or a.jpg and its prefixed name as well
OutputDirs ==
    { <<>>,
      [prefixed |-> FALSE, stem |-> "a", ext |-> ".jpg"] :> "complete",
      ([prefixed |-> FALSE, stem |-> "a", ext |-> ".jpg"] :> "complete")
        @@ ([prefixed |-> TRUE, stem |-> "a", ext |-> ".jpg"] :> "complete") }

\* process_dataset, lines 174-189: the counter and one submitted call per item
DownloadInit ==
    /\ script = "download"
    /\ categoriesFile = <<>>
    /\ annDoc = [images |-> <<>>]
    /\ referenceYaml = [names |-> <<>>]
    /\ dataYaml = [names |-> <<>>]
    /\ txtFiles = <<>>
    /\ log = <<>>
    /\ tree = NoTree
    /\ proc = NoProc
    /\ \E images \in UNION {[1..n -> ImageItems] : n \in 1..MaxItems} :
         /\ workers = [w \in DOMAIN images |-> StartWorker(images[w])]
         /\ counter = ProgressCounter(Len(images))
    /\ \E files \in OutputDirs : outdir = [files |-> files, ops |-> {}]

WorkerStep(w) ==
    \/ CheckConflict(w) \/ CheckPrefixed(w) \/ Fetch(w) \/ Open(w) \/ Write(w)
    \/ Except(w) \/ RemoveCheck(w) \/ RemoveFile(w)
    \/ Acquire(w) \/ IncrementLoad(w) \/ IncrementStore(w)

DownloadNext == \E w \in 1..MaxItems : WorkerStep(w)

DownloadSpec == DownloadInit /\ [][DownloadNext]_vars

---------------------------------------------------------------------------
(* split_train_val.py *)

\* the reconcilers have no file and no history
NoDocuments ==
    /\ categoriesFile = <<>>
    /\ annDoc = [images |-> <<>>]
    /\ referenceYaml = [names |-> <<>>]
    /\ dataYaml = [names |-> <<>>]
    /\ txtFiles = <<>>
    /\ log = <<>>

Dot == "."

\* name.rfind('.'), counted from 1, 0 when there is no dot
LastDot(name) ==
    IF \E i \in 1..Len(name) : name[i] = Dot
    THEN CHOOSE i \in 1..Len(name) :
            name[i] = Dot /\ \A j \in (i + 1)..Len(name) : name[j] # Dot
    ELSE 0

\* Path(name).stem of a name without separator: the name without its last
\* suffix; a leading dot or a trailing dot starts no suffix
Stem(name) ==
    IF 1 < LastDot(name) /\ LastDot(name) < Len(name)
    THEN SubSeq(name, 1, LastDot(name) - 1)
    ELSE name

\* label_name = Path(image_name).stem + '.txt'
LabelName(image_name) == Stem(image_name) \o <<Dot, "t", "x", "t">>

\* [line.strip() for line in f if line.strip()]
RECURSIVE StrippedLines(_)
StrippedLines(lines) ==
    IF lines = <<>> THEN <<>>
    ELSE IF Strip(Head(lines)) # <<>>
         THEN <<Strip(Head(lines))>> \o StrippedLines(Tail(lines))
         ELSE StrippedLines(Tail(lines))

\* shutil.move of file name from directory src to directory dst of tree t
Move(t, src, dst, name) ==
    [t EXCEPT ![src] = @ \ {name}, ![dst] = @ \cup {name}]

\* split_train_val up to its loop: the val directories are made, val.txt is read
SplitStart ==
    /\ script = "split"
    /\ proc.pc = "start"
    /\ proc' = [proc EXCEPT !.pc = "image",
                            !.val_image_names = StrippedLines(ReadLines(proc.val_txt)),
                            !.queue = StrippedLines(ReadLines(proc.val_txt))]
    /\ UNCHANGED <<script, documents, tree, pool>>

\* "Move image" of one iteration of "for image_name in val_image_names"
MoveImage ==
    /\ script = "split"
    /\ proc.pc = "image"
    /\ proc.queue # <<>>
    /\ IF Head(proc.queue) \in tree.images_train
       THEN /\ tree' = IF proc.dry_run THEN tree
                       ELSE Move(tree, "images_train", "images_val", Head(proc.queue))
            /\ proc' = [proc EXCEPT !.pc = "label", !.images_moved = @ + 1]
       ELSE /\ tree' = tree
            /\ proc' = [proc EXCEPT !.pc = "label", !.images_not_found = @ + 1]
    /\ UNCHANGED <<script, documents, pool>>

\* "Move label" of the same iteration
MoveLabel ==
    /\ script = "split"
    /\ proc.pc = "label"
    /\ IF LabelName(Head(proc.queue)) \in tree.labels_train
       THEN /\ tree' = IF proc.dry_run THEN tree
                       ELSE Move(tree, "labels_train", "labels_val",
                                 LabelName(Head(proc.queue)))
            /\ proc' = [proc EXCEPT !.pc = "image", !.queue = Tail(@),
                                    !.labels_moved = @ + 1]
       ELSE /\ tree' = tree
            /\ proc' = [proc EXCEPT !.pc = "image", !.queue = Tail(@),
                                    !.labels_not_found = @ + 1]
    /\ UNCHANGED <<script, documents, pool>>

\* the summary after the loop
SplitSummary ==
    /\ script = "split"
    /\ proc.pc = "image"
    /\ proc.queue = <<>>
    /\ proc' = [proc EXCEPT !.pc = "done"]
    /\ UNCHANGED <<script, documents, tree, pool>>

ImageNames ==
    { <<"a", Dot, "j", "p", "g">>, <<"a", Dot, "p", "n", "g">>, <<"b", Dot, "j", "p", "g">> }

\* lines of val.txt: names of images, one of them between spaces, and an
\* empty line
ValLines == ImageNames \cup { <<SP, "b", Dot, "j", "p", "g", SP>>, <<>> }

ValTxts == {Join(<<NL>>, ls) \o <<NL>> : ls \in SeqsUpTo(ValLines, MaxNames)}

\* the data directory: images and labels in train, the val directories empty
SplitTrees ==
    {[images_train |-> is, images_val |-> {}, labels_train |-> ls, labels_val |-> {}] :
        is \in SUBSET ImageNames, ls \in SUBSET {LabelName(n) : n \in ImageNames}}

SplitInit ==
    /\ script = "split"
    /\ NoDocuments
    /\ NoPool
    /\ tree \in SplitTrees
    /\ \E dry_run \in BOOLEAN, val_txt \in ValTxts :
         proc = [pc |-> "start", dry_run |-> dry_run, val_txt |-> val_txt,
                 val_image_names |-> <<>>, queue |-> <<>>,
                 images_moved |-> 0, images_not_found |-> 0,
                 labels_moved |-> 0, labels_not_found |-> 0, before |-> tree]

SplitNext == SplitStart \/ MoveImage \/ MoveLabel \/ SplitSummary

SplitSpec == SplitInit /\ [][SplitNext]_vars

---------------------------------------------------------------------------
(* unzip_all.py *)

\* zip_path.stem: the name of the directory a zip file is extracted to,
\* beside the zip file
ExtractDir(zip_name) == Stem(zip_name)

\* how a call of extract_zip_file on a zip file of the given kind can end once
\* the directory was found missing: mkdir raises; ZipFile(zip_path) raises
\* BadZipFile; extractall raises part-way; the extraction completes
Outcomes(kind) ==
    IF kind = "bad" THEN {"mkdir_error", "bad_zip"}
    ELSE {"mkdir_error", "extract_error", "ok"}

\* what is at the path of the extraction directory when the call has ended
DirAfter(outcome) ==
    CASE outcome = "bad_zip" -> "empty"
      [] outcome = "extract_error" -> "partial"
      [] outcome = "ok" -> "complete"

\* extract_zip_file(zip_file, root_path) for a missing directory
extract_zip_file(t, zip_name, outcome) ==
    [tree |-> IF outcome = "mkdir_error" THEN t
              ELSE [t EXCEPT !.dirs = (ExtractDir(zip_name) :> DirAfter(outcome)) @@ @],
     returned |-> outcome = "ok"]

\* main() up to its loop, in a run started by the operator
UnzipStart ==
    /\ script = "unzip"
    /\ proc.pc = "start"
    /\ \E order \in Perms(DOMAIN tree.zips) :
         proc' = [proc EXCEPT !.pc = "loop", !.queue = order,
                              !.success_count = 0, !.failed_count = 0,
                              !.skipped_count = 0, !.skipped = {}]
    /\ UNCHANGED <<script, documents, tree, pool>>

\* "if extract_dir.exists(): skipped_count += 1; continue"
UnzipSkip ==
    /\ script = "unzip"
    /\ proc.pc = "loop"
    /\ proc.queue # <<>>
    /\ ExtractDir(Head(proc.queue)) \in DOMAIN tree.dirs
    /\ proc' = [proc EXCEPT !.queue = Tail(@),
                            !.skipped_count = @ + 1,
                            !.skipped = @ \cup {Head(proc.queue)}]
    /\ UNCHANGED <<script, documents, tree, pool>>

\* the iteration of the loop, extract_zip_file having ended as r
UnzipCounted(zip_name, r) ==
    /\ tree' = r.tree
    /\ proc' = IF r.returned
               THEN [proc EXCEPT !.queue = Tail(@), !.success_count = @ + 1,
                                 !.succeeded = @ \cup {zip_name}]
               ELSE [proc EXCEPT !.queue = Tail(@), !.failed_count = @ + 1,
                                 !.failed = @ \cup {zip_name}]

\* "if extract_zip_file(zip_file, root_path): ... else: ..."
UnzipExtract ==
    /\ script = "unzip"
    /\ proc.pc = "loop"
    /\ proc.queue # <<>>
    /\ ExtractDir(Head(proc.queue)) \notin DOMAIN tree.dirs
    /\ \E outcome \in Outcomes(tree.zips[Head(proc.queue)]) :
         UnzipCounted(Head(proc.queue), extract_zip_file(tree, Head(proc.queue), outcome))
    /\ UNCHANGED <<script, documents, pool>>

\* the summary of the run
UnzipSummary ==
    /\ script = "unzip"
    /\ proc.pc = "loop"
    /\ proc.queue = <<>>
    /\ proc' = [proc EXCEPT !.pc = "done"]
    /\ UNCHANGED <<script, documents, tree, pool>>

\* the operator runs the script again over the same root directory
UnzipAgain ==
    /\ script = "unzip"
    /\ proc.pc = "done"
    /\ proc.run < MaxRuns
    /\ proc' = [proc EXCEPT !.pc = "start", !.run = @ + 1]
    /\ UNCHANGED <<script, documents, tree, pool>>

ZipNames ==
    { <<"a", Dot, "z", "i", "p">>, <<"b", Dot, "z", "i", "p">>,
      <<"a", Dot, "b", Dot, "z", "i", "p">> }

\* the zip files under the root, each a zip archive or not; nothing extracted
UnzipTrees ==
    UNION {{[zips |-> kinds, dirs |-> <<>>] : kinds \in [zs -> {"good", "bad"}]} :
           zs \in {z \in SUBSET ZipNames : Cardinality(z) \in 1..MaxZips}}

UnzipInit ==
    /\ script = "unzip"
    /\ NoDocuments
    /\ NoPool
    /\ tree \in UnzipTrees
    /\ proc = [pc |-> "start", run |-> 1, queue |-> <<>>,
               success_count |-> 0, failed_count |-> 0, skipped_count |-> 0,
               skipped |-> {}, succeeded |-> {}, failed |-> {}]

UnzipNext == UnzipStart \/ UnzipSkip \/ UnzipExtract \/ UnzipSummary \/ UnzipAgain

UnzipSpec == UnzipInit /\ [][UnzipNext]_vars

---------------------------------------------------------------------------
(* Vocabulary of the properties *)

Ran == log # <<>>

\* the last run wrote: it was not a dry run
WetRun == Ran /\ ~Last(log).dry_run

\* the last run of the COCO reconciler rewrote a document that has categories
CocoWet ==
    script = "coco" /\ WetRun /\ "categories" \in DOMAIN Last(log).before

YoloWet == script = "yolo" /\ WetRun

\* the document before the last run, and its annotations before and after
DocBefore == Last(log).before

AnnsBefore == IF "annotations" \in DOMAIN DocBefore THEN DocBefore.annotations ELSE <<>>

AnnsAfter == IF "annotations" \in DOMAIN annDoc THEN annDoc.annotations ELSE <<>>

HasCategory(ann) == "category_id" \in DOMAIN ann

DeclaredIds == {DocBefore.categories[i].id : i \in 1..Len(DocBefore.categories)}

CanonicalCategoryIds == {categoriesFile[i].id : i \in 1..Len(categoriesFile)}

ReportedUnmappedIds ==
    {Last(log).stats.unmapped_categories[i].id :
        i \in 1..Len(Last(log).stats.unmapped_categories)}

\* the dataset before the last run of the YOLO reconciler
NamesBefore ==
    IF "names" \in DOMAIN Last(log).before.dataYaml
    THEN Last(log).before.dataYaml.names ELSE <<>>

CanonicalClassIds == DOMAIN referenceYaml.names

WarnedIds == {Last(log).warnings[i].id : i \in 1..Len(Last(log).warnings)}

\* the label files of the last run; for a file p, ins are its lines before
\* the run, outs its lines after, from[j] the index in ins of the line that
\* outs[j] comes from
LabelPaths == DOMAIN Last(log).origin

InLines(p) == ReadLines(Last(log).before.txtFiles[p])

OutLines(p) == ReadLines(txtFiles[p])

\* a line normalize_label_file reads a class id from
WellFormed(raw) == Len(Split(raw)) >= 2 /\ IsInt(Split(raw)[1])

ClassId(raw) == IntOf(Split(raw)[1])

\* what is read of a line: the line, its tokens, and its class id, -1 when
\* it has fewer than two tokens or a leading token that is not an integer
ParsedLine(raw, toks) ==
    [raw |-> raw, toks |-> toks,
     id |-> IF Len(toks) >= 2 /\ IsInt(toks[1]) THEN IntOf(toks[1]) ELSE -1]

RECURSIVE ParsedFrom(_, _, _)
ParsedFrom(lines, i, acc) ==
    IF i > Len(lines) THEN acc
    ELSE ParsedFrom(lines, i + 1, Append(acc, ParsedLine(lines[i], Split(lines[i]))))

Parsed(lines) == ParsedFrom(lines, 1, <<>>)

\* the number of lines whose class id is in ids
LinesOf(parsed, ids) == Cardinality({i \in 1..Len(parsed) : parsed[i].id \in ids})

\* the sum of the counts returned for the files of paths
RECURSIVE Returned(_)
Returned(paths) ==
    IF paths = {} THEN [num_remapped |-> 0, num_removed |-> 0]
    ELSE LET p == CHOOSE q \in paths : TRUE
         IN [num_remapped |-> Last(log).returned[p].num_remapped
                                + Returned(paths \ {p}).num_remapped,
             num_removed |-> Last(log).returned[p].num_removed
                               + Returned(paths \ {p}).num_removed]

\* a line without its terminator
Chomp(raw) == IF raw # <<>> /\ Last(raw) = NL THEN SubSeq(raw, 1, Len(raw) - 1) ELSE raw

---------------------------------------------------------------------------
(* C1: reference integrity after reconciliation *)

LinesCanonicalOrWarned(outs) ==
    \A j \in 1..Len(outs) :
       outs[j].id \in CanonicalClassIds \/ outs[j].id \in WarnedIds

\* C1 as stated: after a non-dry run every surviving annotation's category
\* reference, and every surviving label line's class id, is a canonical id or
\* an id reported as unmapped
C1_EveryReferenceCanonicalOrReported ==
    /\ CocoWet =>
         \A i \in 1..Len(AnnsAfter) :
            HasCategory(AnnsAfter[i]) =>
               \/ AnnsAfter[i].category_id \in CanonicalCategoryIds
               \/ AnnsAfter[i].category_id \in ReportedUnmappedIds
    /\ YoloWet => \A p \in LabelPaths : LinesCanonicalOrWarned(Parsed(OutLines(p)))

DeclaredLinesCanonicalOrWarned(ins, outs, from, declared) ==
    /\ Len(outs) = Len(from)
    /\ \A j \in 1..Len(outs) :
          IF ins[from[j]].id \in declared
          THEN outs[j].id \in CanonicalClassIds \/ outs[j].id \in WarnedIds
          ELSE outs[j].id = ins[from[j]].id

\* C1 amended: the same, for the references to ids that the document's
\* category list, or the dataset's manifest, declares; a reference to an id
\* that is not declared is left as it is and is not reported
C1_DeclaredReferenceCanonicalOrReported ==
    /\ CocoWet =>
         /\ Len(AnnsAfter) = Len(AnnsBefore)
         /\ \A i \in 1..Len(AnnsAfter) :
               /\ HasCategory(AnnsAfter[i]) <=> HasCategory(AnnsBefore[i])
               /\ HasCategory(AnnsBefore[i]) =>
                    IF AnnsBefore[i].category_id \in DeclaredIds
                    THEN \/ AnnsAfter[i].category_id \in CanonicalCategoryIds
                         \/ AnnsAfter[i].category_id \in ReportedUnmappedIds
                    ELSE AnnsAfter[i].category_id = AnnsBefore[i].category_id
    /\ YoloWet =>
         \A p \in LabelPaths :
            DeclaredLinesCanonicalOrWarned(Parsed(InLines(p)), Parsed(OutLines(p)),
                                           Last(log).origin[p], DOMAIN NamesBefore)

DeclaredUnmappedLineKept(ins, outs, from, declared) ==
    \E j \in 1..Len(outs) :
       /\ ins[from[j]].id \in declared
       /\ outs[j].id \notin CanonicalClassIds
       /\ outs[j].id \in WarnedIds

\* C1 witness: a label line of a declared, unmapped class survived a non-dry
\* run with an id that is not canonical, and the class was reported
C1_Witness ==
    /\ YoloWet
    /\ \E p \in LabelPaths :
          DeclaredUnmappedLineKept(Parsed(InLines(p)), Parsed(OutLines(p)),
                                   Last(log).origin[p], DOMAIN NamesBefore)

---------------------------------------------------------------------------
(* C2: the remap of a document's annotations *)

IsCanonicalName(name) ==
    \E k \in 1..Len(categoriesFile) : Strip(categoriesFile[k].name) = Strip(name)

CanonicalIdOf(name) ==
    categoriesFile[CHOOSE k \in 1..Len(categoriesFile) :
                      Strip(categoriesFile[k].name) = Strip(name)].id

\* the declaration of local id c in the document before the run
DeclarationsOf(c) ==
    {k \in 1..Len(DocBefore.categories) : DocBefore.categories[k].id = c}

\* C2: an annotation whose category_id is the id of a declared category with a
\* canonical (trimmed) name gets the canonical id of that name; any other
\* annotation keeps its category_id; the table is applied once.  Local ids
\* are declared once per document.
C2_AnnotationRemappedOnce ==
    CocoWet =>
      /\ Len(AnnsAfter) = Len(AnnsBefore)
      /\ \A i \in 1..Len(AnnsBefore) :
            IF HasCategory(AnnsBefore[i])
            THEN LET c == AnnsBefore[i].category_id
                 IN IF \E k \in DeclarationsOf(c) :
                          IsCanonicalName(DocBefore.categories[k].name)
                    THEN \A k \in DeclarationsOf(c) :
                            AnnsAfter[i].category_id =
                               CanonicalIdOf(DocBefore.categories[k].name)
                    ELSE AnnsAfter[i].category_id = c
            ELSE AnnsAfter[i] = AnnsBefore[i]

\* C2 witness: two local ids are swapped by the table and an annotation
\* carrying one of them now carries the other
C2_Witness ==
    /\ CocoWet
    /\ \E i \in 1..Len(AnnsBefore) :
          /\ HasCategory(AnnsBefore[i])
          /\ LET c == AnnsBefore[i].category_id
                 n == AnnsAfter[i].category_id
             IN /\ n # c
                /\ \E k \in DeclarationsOf(n) :
                      /\ IsCanonicalName(DocBefore.categories[k].name)
                      /\ CanonicalIdOf(DocBefore.categories[k].name) = c

---------------------------------------------------------------------------
(* C3: the category list of a rewritten document *)

\* C3: after a non-dry run on a document that has categories, the document's
\* category list is the canonical list, complete, ascending by id
C3_CategoriesAreCanonicalSorted ==
    CocoWet =>
      /\ Len(annDoc.categories) = Len(categoriesFile)
      /\ {annDoc.categories[i] : i \in 1..Len(annDoc.categories)}
           = {categoriesFile[i] : i \in 1..Len(categoriesFile)}
      /\ \A i, j \in 1..Len(annDoc.categories) :
            i < j => annDoc.categories[i].id < annDoc.categories[j].id

\* C3 witness: the document declared an unmapped category and the canonical
\* file is not in id order; the rewritten list differs from both
C3_Witness ==
    /\ CocoWet
    /\ ReportedUnmappedIds # {}
    /\ annDoc.categories # categoriesFile
    /\ annDoc.categories # DocBefore.categories

---------------------------------------------------------------------------
(* C4: remapped label lines *)

\* the canonical id of a class name, read from the reference data.yaml
IsReferenceName(name) ==
    \E k \in DOMAIN referenceYaml.names : Strip(referenceYaml.names[k]) = Strip(name)

ReferenceIdOf(name) ==
    CHOOSE k \in DOMAIN referenceYaml.names : Strip(referenceYaml.names[k]) = Strip(name)

RemappedLinesRewritten(ins, outs, from, id_mapping) ==
    \A i \in 1..Len(ins) :
       (ins[i].id >= 0 /\ ins[i].id \in DOMAIN id_mapping)
       => \E j \in 1..Len(outs) :
             /\ from[j] = i
             /\ outs[j].toks = <<Str(id_mapping[ins[i].id])>> \o Tail(ins[i].toks)

\* C4: the remap table sends each declared non-damage class with a canonical
\* name to the canonical id of that name, and every well-formed line whose id
\* is in the table is rewritten with that id as leading token and the same
\* geometry tokens, the table being applied once
C4_RemappedLineKeepsGeometry ==
    YoloWet =>
      /\ \A d \in DOMAIN NamesBefore :
            (Strip(NamesBefore[d]) \notin DAMAGE_CLASSES /\ IsReferenceName(NamesBefore[d]))
            => /\ d \in DOMAIN Last(log).id_mapping
               /\ Last(log).id_mapping[d] = ReferenceIdOf(NamesBefore[d])
      /\ \A p \in LabelPaths :
            RemappedLinesRewritten(Parsed(InLines(p)), Parsed(OutLines(p)),
                                   Last(log).origin[p], Last(log).id_mapping)

LineSwapped(ins, outs, from, a, b) ==
    \E j \in 1..Len(outs) : ins[from[j]].id = a /\ outs[j].id = b

\* C4 witness: the manifest swaps two canonical ids and a line of one of them
\* was rewritten to the other
C4_Witness ==
    /\ YoloWet
    /\ \E a, b \in DOMAIN Last(log).id_mapping :
          /\ a # b
          /\ Last(log).id_mapping[a] = b
          /\ Last(log).id_mapping[b] = a
          /\ \E p \in LabelPaths :
                LineSwapped(Parsed(InLines(p)), Parsed(OutLines(p)),
                            Last(log).origin[p], a, b)

---------------------------------------------------------------------------
(* C5: damage classes take precedence over the reference mapping *)

NoLineFrom(ins, from, d) == \A j \in 1..Len(from) : ClassId(ins[from[j]]) # d

\* C5: the local id of every class with a damage name is a damage id and not
\* a key of the remap table, also when the reference lists the name, and no
\* line of the rewritten files comes from a line with that id
C5_DamagePrecedence ==
    (script = "yolo" /\ Ran) =>
      \A d \in DOMAIN NamesBefore :
         Strip(NamesBefore[d]) \in DAMAGE_CLASSES
         => /\ InList(d, Last(log).damage_class_ids)
            /\ d \notin DOMAIN Last(log).id_mapping
            /\ ~Last(log).dry_run =>
                 \A p \in LabelPaths :
                    /\ Len(OutLines(p)) = Len(Last(log).origin[p])
                    /\ NoLineFrom(InLines(p), Last(log).origin[p], d)

HasLineOf(ins, d) == \E i \in 1..Len(ins) : WellFormed(ins[i]) /\ ClassId(ins[i]) = d

\* C5 witness: a damage name that the reference also lists is declared, a
\* well-formed line carried its id, and a non-dry run rewrote the file
C5_Witness ==
    /\ YoloWet
    /\ \E d \in DOMAIN NamesBefore :
          /\ Strip(NamesBefore[d]) \in DAMAGE_CLASSES
          /\ IsReferenceName(NamesBefore[d])
          /\ \E p \in LabelPaths : HasLineOf(InLines(p), d)

---------------------------------------------------------------------------
(* C6, C7: a second run over the output of a first run *)

\* what the script has on disk
Disk ==
    IF script = "coco" THEN annDoc ELSE [dataYaml |-> dataYaml, txtFiles |-> txtFiles]

\* run k read what a non-dry run k-1 had written
RerunOnOutput(k) == k \in 2..Len(log) /\ ~log[k - 1].dry_run

\* C6: a non-dry run over the files a non-dry run produced leaves every
\* document, manifest and label file with the same content
C6_SecondRunChangesNothing ==
    (RerunOnOutput(Len(log)) /\ ~Last(log).dry_run) => Disk = Last(log).before

\* C7: a run over the files a non-dry run produced reports zero categories
\* normalized and zero annotations updated (COCO), zero annotations remapped
\* (YOLO)
C7_SecondRunCountsZero ==
    \A k \in 2..Len(log) :
       RerunOnOutput(k) =>
          IF script = "coco"
          THEN /\ log[k].stats.categories_normalized = 0
               /\ log[k].stats.annotations_updated = 0
          ELSE log[k].stats.annotations_remapped = 0

---------------------------------------------------------------------------
(* C8: dry run *)

\* C8: a dry run leaves the files as they were, and returns the statistics
\* that a non-dry run over the same files returns
C8_DryRunFrame ==
    /\ (Ran /\ Last(log).dry_run) => Disk = Last(log).before
    /\ \A i, j \in 1..Len(log) :
          (log[i].dry_run /\ ~log[j].dry_run /\ log[i].before = log[j].before)
          => log[i].stats = log[j].stats

\* C8 witness: a dry run was followed by a non-dry run over the same files
\* that changed them, both reporting the same non-zero counts
C8_Witness ==
    /\ script = "yolo"
    /\ Len(log) >= 2
    /\ log[1].dry_run /\ ~log[2].dry_run
    /\ log[2].before = log[1].before
    /\ log[2].before.txtFiles # txtFiles
    /\ log[1].stats.annotations_remapped > 0
    /\ log[1].stats.annotations_removed > 0

---------------------------------------------------------------------------
(* C9: the rewritten manifest *)

\* C9: after a non-dry run the manifest has train = images/train, val =
\* images/val and names = the reference's id -> trimmed name, whatever the
\* dataset declared before
C9_ManifestIsCanonical ==
    YoloWet =>
      dataYaml = [train |-> "images/train",
                  val |-> "images/val",
                  names |-> [k \in DOMAIN referenceYaml.names |->
                               Strip(referenceYaml.names[k])]]

\* C9 witness: the dataset declared names of its own, all of them different
\* from the reference's, and a non-dry run rewrote the manifest
C9_Witness ==
    /\ YoloWet
    /\ DOMAIN NamesBefore # {}
    /\ DOMAIN NamesBefore # DOMAIN referenceYaml.names
    /\ \A d \in DOMAIN NamesBefore : ~IsReferenceName(NamesBefore[d])
    /\ dataYaml # Last(log).before.dataYaml

---------------------------------------------------------------------------
(* C10: label lines of an unmapped class *)

DamageIds == {Last(log).damage_class_ids[k] : k \in 1..Len(Last(log).damage_class_ids)}

MappedIds == DOMAIN Last(log).id_mapping

\* the totals of the run are the sums of what was returned for each file
TotalsAreSums ==
    /\ Last(log).stats.annotations_remapped = Returned(DOMAIN Last(log).returned).num_remapped
    /\ Last(log).stats.annotations_removed = Returned(DOMAIN Last(log).returned).num_removed

\* line i of ins is well formed and its class id is neither a damage id nor a
\* key of the remap table
Unmapped(ins, i) ==
    ins[i].id >= 0 /\ ins[i].id \notin DamageIds /\ ins[i].id \notin MappedIds

\* the lines of an unmapped class are counted neither as remapped nor as
\* removed: what is counted are the lines of a damage id or a key of the table
UnmappedNotCounted(ins, ret) ==
    ret.num_remapped + ret.num_removed = LinesOf(ins, DamageIds \cup MappedIds)

UnmappedKeptByteForByte(ins, outs, from, ret) ==
    /\ UnmappedNotCounted(ins, ret)
    /\ \A i \in 1..Len(ins) :
          Unmapped(ins, i) =>
             \E j \in 1..Len(outs) : from[j] = i /\ Chomp(outs[j]) = Chomp(ins[i].raw)

\* C10 as stated: every line of an unmapped class is in the rewritten file
\* byte for byte, and is not counted
C10_KeptByteForByte ==
    YoloWet =>
      /\ TotalsAreSums
      /\ \A p \in LabelPaths :
            UnmappedKeptByteForByte(Parsed(InLines(p)), OutLines(p), Last(log).origin[p],
                                    Last(log).returned[p])

UnmappedKeptStripped(ins, outs, from, ret) ==
    /\ UnmappedNotCounted(ins, ret)
    /\ \A i \in 1..Len(ins) :
          Unmapped(ins, i) =>
             \E j \in 1..Len(outs) : from[j] = i /\ outs[j] = Strip(ins[i].raw) \o <<NL>>

\* C10 amended: every line of an unmapped class is in the rewritten file with
\* its leading and trailing whitespace removed and nothing else changed, and
\* is not counted
C10_KeptStripped ==
    YoloWet =>
      /\ TotalsAreSums
      /\ \A p \in LabelPaths :
            UnmappedKeptStripped(Parsed(InLines(p)), OutLines(p), Last(log).origin[p],
                                 Last(log).returned[p])

UnmappedLineWithSpaces(ins) ==
    \E i \in 1..Len(ins) :
       /\ Unmapped(ins, i)
       /\ Strip(ins[i].raw) # Chomp(ins[i].raw)
       /\ Strip(ins[i].raw) # Join(<<SP>>, ins[i].toks)

\* C10 witness: a line of an unmapped class with surrounding whitespace and a
\* double space inside was kept, trimmed, beside remapped and removed lines
C10_Witness ==
    /\ YoloWet
    /\ Last(log).stats.annotations_remapped > 0
    /\ Last(log).stats.annotations_removed > 0
    /\ \E p \in LabelPaths : UnmappedLineWithSpaces(Parsed(InLines(p)))

---------------------------------------------------------------------------
(* C11: malformed label lines *)

\* no rewritten line comes from a malformed line, and the two counts returned
\* for the file are counts of well-formed lines
MalformedDroppedUncounted(ins, from, ret) ==
    /\ \A j \in 1..Len(from) : ins[from[j]].id >= 0
    /\ ret.num_removed = LinesOf(ins, DamageIds)
    /\ ret.num_remapped = LinesOf(ins, MappedIds \ DamageIds)

\* C11: a line with fewer than two tokens, or whose leading token is not an
\* integer, is not in the rewritten file and is not counted: num_removed is
\* the number of well-formed lines with a damage id, num_remapped the number
\* of well-formed lines whose id is in the remap table and is not a damage id
C11_MalformedDroppedUncounted ==
    (script = "yolo" /\ Ran) =>
      \A p \in LabelPaths :
         /\ MalformedDroppedUncounted(Parsed(InLines(p)), Last(log).origin[p],
                                      Last(log).returned[p])
         /\ ~Last(log).dry_run => Len(OutLines(p)) = Len(Last(log).origin[p])

HasMalformed(ins) ==
    /\ \E i \in 1..Len(ins) : Len(ins[i].toks) >= 2 /\ ~IsInt(ins[i].toks[1])
    /\ \E i \in 1..Len(ins) : Len(ins[i].toks) = 1

\* C11 witness: a non-dry run over lines with a non-numeric id and lines of
\* a single token, beside lines it remapped and lines it removed
C11_Witness ==
    /\ YoloWet
    /\ Last(log).stats.annotations_remapped > 0
    /\ Last(log).stats.annotations_removed > 0
    /\ HasMalformed(Parsed(InLines(PathA) \o InLines(PathB)))
    /\ Len(OutLines(PathA)) + Len(OutLines(PathB))
         < Len(InLines(PathA)) + Len(InLines(PathB))

---------------------------------------------------------------------------
(* C12: what normalize_label_file leaves on disk *)

\* the input lines that survive: well formed, not of a damage class
Survivors(ins) == {i \in 1..Len(ins) : ins[i].id >= 0 /\ ins[i].id \notin DamageIds}

\* content holds the survivors of ins, in the order of ins, each ending in a
\* newline, and nothing when there is no survivor
SurvivorsInOrder(content, ins, outs, from) ==
    /\ Len(outs) = Len(from)
    /\ {from[j] : j \in 1..Len(from)} = Survivors(ins)
    /\ \A j, k \in 1..Len(from) : j < k => from[j] < from[k]
    /\ \A j \in 1..Len(outs) :
          /\ Last(outs[j].raw) = NL
          /\ outs[j].toks # <<>>
          /\ Tail(outs[j].toks) = Tail(ins[from[j]].toks)
    /\ Survivors(ins) = {} => content = <<>>

\* C12: after a non-dry run every file passed to normalize_label_file that
\* existed exists and holds
\* the surviving lines in their original order, each newline-terminated, and
\* nothing when no line survives; a path that does not exist yields (0, 0)
\* and is not created
C12_FileOverwrittenWithSurvivors ==
    /\ YoloWet =>
         /\ DOMAIN txtFiles = DOMAIN Last(log).before.txtFiles
         /\ LabelPaths = DOMAIN Last(log).returned \cap DOMAIN txtFiles
         /\ \A p \in LabelPaths :
               SurvivorsInOrder(txtFiles[p], Parsed(InLines(p)), Parsed(OutLines(p)),
                                Last(log).origin[p])
    /\ (script = "yolo" /\ Ran) =>
         \A p \in BrokenLinks :
            /\ p \in DOMAIN Last(log).returned
            /\ Last(log).returned[p] = [num_remapped |-> 0, num_removed |-> 0]
            /\ p \notin DOMAIN txtFiles

\* C12 witness: a non-dry run emptied a file that had lines, rewrote another
\* one to fewer lines, and passed over a path that does not exist
C12_Witness ==
    /\ YoloWet
    /\ Last(log).before.txtFiles[PathA] # <<>>
    /\ txtFiles[PathA] = <<>>
    /\ Len(OutLines(PathB)) \in 1..(Len(InLines(PathB)) - 1)
    /\ \E p \in BrokenLinks : p \in DOMAIN Last(log).returned

---------------------------------------------------------------------------
(* Vocabulary of the properties of main() *)

YoloMain == script = "yolo" /\ proc.pc # "idle"

CocoMain == script = "coco" /\ proc.pc # "idle"

\* the dataset directories and annotation files under the root before the run
Discovered == DOMAIN proc.before.manifests

\* the dataset a label file belongs to: the nearest directory above it that
\* holds a data.yaml
Owner(path) ==
    CHOOSE d \in Discovered :
       /\ Under(d, path)
       /\ \A e \in Discovered : Under(e, path) => Len(e) <= Len(d)

\* main() has stopped before its summary
Aborted == proc.pc \in {"exit", "traceback"}

FatalCase == ~proc.canonical_exists \/ ~proc.root_exists

---------------------------------------------------------------------------
(* C13: one table per dataset *)

\* C13: in a run each label file is rewritten at most once, and with the
\* table of the dataset it belongs to, for every layout of dataset directories
C13_LabelFileOnceOwnTable ==
    YoloMain =>
      \A i, j \in 1..Len(proc.rewrites) :
         /\ proc.rewrites[i].dataset = Owner(proc.rewrites[i].path)
         /\ i # j => proc.rewrites[i].path # proc.rewrites[j].path

---------------------------------------------------------------------------
(* C14: the order of the datasets *)

\* C14: the files a non-dry run leaves are the files that the run loop leaves
\* when it takes the discovered datasets in any other order
C14_AnyOrderSameFiles ==
    (YoloMain /\ proc.pc = "done" /\ ~proc.dry_run) =>
      \A order \in Perms(Discovered) :
         ProcessAll(order, proc.before, load_reference_mapping(referenceYaml), FALSE)
           = tree

---------------------------------------------------------------------------
(* C15: a dataset that raises *)

StatsDatasets == {proc.all_stats[i].dataset : i \in 1..Len(proc.all_stats)}

LoggedErrors == {proc.errors[i] : i \in 1..Len(proc.errors)}

QueuedDatasets == {proc.queue[i] : i \in 1..Len(proc.queue)}

\* C15: the run loop of the YOLO reconciler does not stop at a dataset whose
\* processing raises: the error is logged, the dataset is missing from the
\* accumulated statistics, and every other discovered dataset is processed
C15_DatasetErrorSkipped ==
    (YoloMain /\ ~FatalCase /\ proc.pc # "start") =>
      /\ proc.pc \in {"loop", "done"}
      /\ \A d \in Discovered \ QueuedDatasets :
            IF Raises(proc.before.manifests[d])
            THEN d \in LoggedErrors /\ d \notin StatsDatasets
            ELSE d \in StatsDatasets /\ d \notin LoggedErrors
      /\ Len(proc.all_stats) + Len(proc.errors) + Len(proc.queue)
           = Cardinality(Discovered)
      /\ proc.pc = "done" => proc.queue = <<>>

\* C15 witness: the first dataset raised, and the run went on to rewrite the
\* label file of a later one and finished
C15_Witness ==
    /\ YoloMain
    /\ proc.pc = "done"
    /\ ~proc.dry_run
    /\ proc.errors # <<>>
    /\ \E i \in 1..Len(proc.all_stats) :
          /\ \A e \in LoggedErrors :
                \E j, k \in 1..Len(SortedDirs) :
                   j < k /\ SortedDirs[j] = e /\ SortedDirs[k] = proc.all_stats[i].dataset
          /\ proc.all_stats[i].annotations_remapped > 0
          /\ \E p \in DOMAIN tree.labels :
                /\ Under(proc.all_stats[i].dataset, p)
                /\ tree.labels[p] # proc.before.labels[p]

---------------------------------------------------------------------------
(* C16, C17: what stops a run *)

\* C16: in both reconcilers a run stops before its summary only when the
\* canonical file or the root directory is missing; an error in one file or
\* dataset does not keep the others from being processed
C16_OnlyFatalCasesAbort ==
    (proc.pc # "idle" /\ Aborted) => FatalCase

\* C17: in both reconcilers, when the canonical file or the root directory is
\* missing the run stops with a diagnostic and never reaches its loop or its
\* summary, no document, manifest or label file having been read or written
C17_FatalCasesAbortAtOnce ==
    (proc.pc \notin {"idle", "start"} /\ FatalCase) =>
      /\ Aborted
      /\ proc.diag # <<>>
      /\ proc.touched = {}
      /\ tree = proc.before

---------------------------------------------------------------------------
(* Vocabulary of the properties of the download pool *)

Downloading == script = "download"

\* the call of worker w has ended
Done(w) == workers[w].pc \in {"returned", "raised"}

PoolFinished == Downloading /\ \A w \in DOMAIN workers : Done(w)

\* the last attempt of worker w has failed
Failed(w) == workers[w].pc \in {"exists", "remove", "raised"} \/ workers[w].status = "error"

---------------------------------------------------------------------------
(* C18: retries and the final failure of one item *)

\* C18: an item is fetched at most max_retries times, with a sleep of
\* 2^attempt seconds between attempts; a call whose last attempt failed ends
\* by returning None, with one 'error' recorded under the item's file name,
\* and in the end its output file is not there as a partial file
C18_RetriesThenRecordedFailure ==
    Downloading =>
      \A w \in DOMAIN workers :
         /\ workers[w].attempts <= max_retries
         /\ workers[w].sleeps = [i \in 1..workers[w].attempt |-> 2 ^ (i - 1)]
         /\ Failed(w) => workers[w].attempts = max_retries
         /\ (Failed(w) /\ Done(w)) =>
              /\ workers[w].ret = "None"
              /\ workers[w].counted = <<"error">>
              /\ \E k \in 1..Len(counter.error_details) :
                    counter.error_details[k][1] = workers[w].filename
         /\ (Failed(w) /\ PoolFinished) =>
              \/ ~Exists(workers[w].filename)
              \/ outdir.files[workers[w].filename] = "complete"

---------------------------------------------------------------------------
(* C19: one worker per output file *)

\* the workers that opened filepath for writing or removed it
Touching(filepath) == {w \in DOMAIN workers : \E op \in outdir.ops : op[1] = filepath /\ op[2] = w}

\* C19: each output file is written or removed by at most one worker of the
\* pool, also when two items resolve to the same file name
C19_OneWorkerPerFile ==
    Downloading =>
      \A op \in outdir.ops : Cardinality(Touching(op[1])) <= 1

---------------------------------------------------------------------------
(* C20: the progress counter *)

RECURSIVE Increments(_)
Increments(ws) ==
    IF ws = {} THEN 0
    ELSE LET w == CHOOSE v \in ws : TRUE
         IN Len(workers[w].counted) + Increments(ws \ {w})

\* between increments the counter is the sum of its parts, at most total, and
\* has lost no increment
CounterConsistent ==
    LockFree(counter) =>
      /\ counter.completed = counter.downloaded + counter.skipped + counter.errors
      /\ counter.completed <= counter.total
      /\ counter.completed = Increments(DOMAIN workers)

\* C20: for every interleaving the counter is consistent after each
\* increment, and when the pool has finished completed = total, each item
\* counted once
C20_CounterCountsEveryItemOnce ==
    Downloading =>
      /\ CounterConsistent
      /\ PoolFinished =>
           /\ counter.completed = counter.total
           /\ \A w \in DOMAIN workers : Len(workers[w].counted) = 1

---------------------------------------------------------------------------
(* C21: label-file discovery *)

\* the parent directory of the file is named train or val, or a segment of
\* its path is named labels
NamedAsLabelFile(path) ==
    \/ Parent(path) # <<>> /\ Last(Parent(path)) \in {"train", "val"}
    \/ \E i \in 1..Len(Parent(path)) : Parent(path)[i] = "labels"

\* C21: the .txt files of the dataset that normalize_dataset passes to
\* normalize_label_file are exactly those whose parent directory is named
\* train or val or whose path has a segment named labels; any other .txt
\* file is neither read nor rewritten
C21_DiscoveryBySegmentName ==
    (script = "yolo" /\ Ran) =>
      \A p \in DOMAIN Last(log).before.txtFiles :
         /\ p \in DOMAIN Last(log).returned <=> NamedAsLabelFile(DatasetDir \o p)
         /\ ~NamedAsLabelFile(DatasetDir \o p) => txtFiles[p] = Last(log).before.txtFiles[p]

---------------------------------------------------------------------------
(* C22: the table of a dataset and the rewrite of its manifest *)

NamesOf(manifest) == IF "names" \in DOMAIN manifest THEN manifest.names ELSE <<>>

\* the remap table and the damage ids that the names of a manifest give
TableOf(names) ==
    [d \in {e \in DOMAIN names : Strip(names[e]) \notin DAMAGE_CLASSES
                                   /\ IsReferenceName(names[e])} |->
       ReferenceIdOf(names[d])]

DamageOf(names) == {d \in DOMAIN names : Strip(names[d]) \in DAMAGE_CLASSES}

\* the tokens of the lines that are left of the read lines ins when table and
\* damage are applied to them
RECURSIVE TableAppliedFrom(_, _, _, _, _)
TableAppliedFrom(ins, i, table, damage, acc) ==
    IF i > Len(ins) THEN acc
    ELSE TableAppliedFrom(ins, i + 1, table, damage,
            IF ins[i].id < 0 \/ ins[i].id \in damage THEN acc
            ELSE IF ins[i].id \in DOMAIN table
                 THEN Append(acc, <<Str(table[ins[i].id])>> \o Tail(ins[i].toks))
                 ELSE Append(acc, ins[i].toks))

RECURSIVE TokensFrom(_, _, _)
TokensFrom(outs, j, acc) ==
    IF j > Len(outs) THEN acc ELSE TokensFrom(outs, j + 1, Append(acc, outs[j].toks))

\* content after is content before with table and damage applied to its lines
TableApplied(before, after, table, damage) ==
    TokensFrom(Parsed(ReadLines(after)), 1, <<>>)
      = TableAppliedFrom(Parsed(ReadLines(before)), 1, table, damage, <<>>)

\* the step of the run loop over dataset dir, whose manifest was manifest
DatasetStep(dir, manifest) ==
    IF Raises(manifest)
    THEN /\ tree' = tree
         /\ proc'.errors = Append(proc.errors, dir)
    ELSE /\ proc'.errors = proc.errors
         /\ proc.dry_run => tree' = tree
         /\ ~proc.dry_run =>
              /\ tree'.manifests[dir] # manifest
              /\ \A p \in DOMAIN tree.labels :
                    IF Under(dir, p) /\ NamedAsLabelFile(RootDir \o p)
                    THEN TableApplied(tree.labels[p], tree'.labels[p],
                                      TableOf(NamesOf(manifest)),
                                      DamageOf(NamesOf(manifest)))
                    ELSE tree'.labels[p] = tree.labels[p]

\* C22: in a call of normalize_dataset the table and the damage ids are those
\* of the manifest as it was before the call, whatever the call writes to the
\* manifest, and they are applied to every label file of the dataset; when
\* building the table raises, the manifest and the label files are as before
C22_TableFromOriginalManifest ==
    [][(YoloMain /\ proc.pc = "loop" /\ proc.queue # <<>>)
         => DatasetStep(Head(proc.queue), tree.manifests[Head(proc.queue)])]_vars

\* C22 witness: a non-dry run has logged a dataset whose manifest does not
\* parse and has rewritten the manifest and the label lines of another one
C22_Witness ==
    /\ YoloMain
    /\ ~proc.dry_run
    /\ \E e \in LoggedErrors : tree.manifests[e] = SyntaxError
    /\ \E d \in StatsDatasets :
          /\ tree.manifests[d] # proc.before.manifests[d]
          /\ \E p \in DOMAIN tree.labels :
                Under(d, p) /\ tree.labels[p] # proc.before.labels[p]

---------------------------------------------------------------------------
(* C23: an image and its label after the split *)

\* the names that val.txt lists
Listed == {proc.val_image_names[i] : i \in 1..Len(proc.val_image_names)}

\* C23: after a non-dry run of split_train_val that started with empty val
\* directories no image is in images/train with its label (same stem, .txt)
\* in labels/val, no image is in images/val with its label in labels/train,
\* and the images that val.txt does not list, and the labels of no listed
\* name, are where they were
C23_ImageAndLabelSameSplit ==
    (script = "split" /\ proc.pc = "done" /\ ~proc.dry_run) =>
      /\ \A img \in tree.images_train : LabelName(img) \notin tree.labels_val
      /\ \A img \in tree.images_val : LabelName(img) \notin tree.labels_train
      /\ \A img \in proc.before.images_train \ Listed : img \in tree.images_train
      /\ \A lab \in proc.before.labels_train \ {LabelName(n) : n \in Listed} :
            lab \in tree.labels_train

---------------------------------------------------------------------------
(* C24: what unzip_all skips *)

\* C24: over successive runs of unzip_all a zip file is counted as already
\* extracted only when an earlier extraction of it completed successfully; a
\* zip file whose extraction failed is attempted again in the next run
C24_SkippedOnlyIfExtracted ==
    script = "unzip" => \A z \in proc.skipped : z \in proc.succeeded

====
